---------------------------- MODULE Spec2Model ----------------------------
(***************************************************************************)
(* django-elasticsearch-model-binder: the alias-indirection index          *)
(* lifecycle (generate_index, bind_alias, initialize_es_model_index,       *)
(* rebuild_es_index), the chunked table scanner (queryset_iterator), the   *)
(* per-row sync hooks (save, delete) and the read path                     *)
(* (retrive_es_fields), over an abstract Elasticsearch engine and an       *)
(* abstract relational table.                                              *)
(*                                                                         *)
(* Every engine request and every database query of the code is one step,  *)
(* so that callers interleave exactly between the requests they issue.     *)
(***************************************************************************)
EXTENDS Integers, FiniteSets, Sequences, TLC

(***************************************************************************)
(* Bounds of the model.                                                    *)
(***************************************************************************)
MaxIndex == 3        \* generate_index is called at most this many times
MaxPk == 2           \* primary keys of the table of the lifecycle model
MaxVal == 2          \* distinct values a row's cached fields take
MaxInitRows == 1     \* rows already saved (and indexed) at bootstrap
MaxScanRows == 7     \* table sizes of the scanner model
MaxChunk == 4        \* chunk sizes of the scanner model
MaxSyncs == 2        \* save and delete calls of the lifecycle model
MaxBuilds == 2       \* direct calls of the document builders
MaxName == 1         \* distinct texts of publishing_name in the builder model
MaxUser == 1         \* primary keys of User rows in the builder model

\* Python's None: an unassigned local, the pk of an unsaved instance.
None == 0

\* queryset_iterator(queryset, chunk_size=1000)
chunk_size_default == 1000

Procs == {1, 2}
Aliases == {"read", "write"}

\* ESBoundModel.get_read_alias_name / get_write_alias_name
get_read_alias_name == "read"
get_write_alias_name == "write"

\* Names of the physical indices generate_index creates: base name + uuid4.
UuidNames == 1..MaxIndex

\* ESModelBinderMixin.get_index_name: the bare base name of the model, which
\* is neither an alias name (base-read, base-write) nor a generated index
\* name (base-<uuid>).
get_index_name == MaxIndex + 1

IndexNames == UuidNames \cup {get_index_name}
Pks == 1..MaxPk
Vals == 1..MaxVal

VARIABLES
    indices,    \* engine: the physical indices that exist
    aliases,    \* engine: aliases[a] = the set of indices alias a is bound to
    docs,       \* engine: docs[i] = the documents of index i, pk -> value
    uuid,       \* number of index names generated so far (uuid4 never repeats)
    rows,       \* relational table: pk -> value of the cached fields
    pk_seq,     \* relational table: the last primary key handed out
    proc,       \* the callers: program counter and locals of each
    sync,       \* the caller of save and delete: program counter and locals
    overlap,    \* history: some call started while another was in flight
    last_bind,  \* history: the index the last bind_alias bound each alias to
    es_fields,  \* the result of the last retrive_es_fields
    es_cached_model_fields,  \* class attribute: the declared cached fields
    es_cached_extra_fields,  \* class attribute: the declared providers
    uuid4,      \* number of values uuid4() has handed out to providers
    built,      \* the result of the last document build
    requests,   \* number of index and bulk requests sent with built documents
    declared    \* history: es_cached_model_fields as the class body wrote it

engine == <<indices, aliases, docs, uuid>>
db == <<rows, pk_seq>>
build == <<es_cached_model_fields, es_cached_extra_fields, uuid4, built,
           requests, declared>>
vars == <<engine, db, proc, sync, overlap, last_bind, es_fields, build>>

EmptyMap == [k \in {} |-> None]

\* Before any document was built.
NoBuilt ==
    [op |-> "none", error |-> "none", documents |-> EmptyMap, pks |-> {},
     calls |-> 0]

\* The entity type of the lifecycle model: Author of the test application,
\* es_cached_model_fields = ['publishing_name', 'user'], no provider.
DeclaredAuthor ==
    /\ es_cached_model_fields = <<"publishing_name", "user">>
    /\ declared = es_cached_model_fields
    /\ es_cached_extra_fields = <<>>
    /\ uuid4 = 0
    /\ built = NoBuilt
    /\ requests = 0

\* A caller before its call: no local is assigned.
IdleProc ==
    [pc |-> "idle", ret |-> "idle", op |-> "none", index |-> None,
     alias |-> "read", old_indicy_names |-> {}, old_indicy |-> None,
     new_indicy |-> None, drop_old_index |-> FALSE, queryset |-> {},
     last_pk |-> None, pk |-> None, gt |-> None, chunk |-> <<>>,
     documents |-> EmptyMap, chunk_size |-> None, batches |-> <<>>,
     indexed_before |-> {}, rows_before |-> {}, write_before |-> {},
     retry |-> FALSE, error |-> "none", at |-> "none"]

\* The one caller of rebuild_es_index of the lifecycle model.
Operator == 1

\* The caller of save and delete between two calls.
IdleSync ==
    [pc |-> "idle", pk |-> None, val |-> None, error |-> "none",
     cause |-> "none", calls |-> 0, during |-> FALSE]

\* What a call leaves behind once it is over: its locals are gone, and the
\* model keeps the arguments and the indices it named for the claims.
Over(rec) ==
    [IdleProc EXCEPT !.op = rec.op, !.old_indicy = rec.old_indicy,
                     !.new_indicy = rec.new_indicy,
                     !.drop_old_index = rec.drop_old_index,
                     !.queryset = rec.queryset,
                     !.indexed_before = rec.indexed_before,
                     !.rows_before = rec.rows_before,
                     !.write_before = rec.write_before,
                     !.retry = rec.retry]

\* The call has returned.
Done(rec) == [Over(rec) EXCEPT !.pc = "done"]

InFlight(p) == proc[p].pc \notin {"idle", "done", "failed"}

\* The history flag once caller p starts a call.
StartOverlap(p) == overlap \/ \E q \in Procs \ {p} : InFlight(q)

\* The exception e leaves the call of caller p, raised at its current step.
Raise(p, e) ==
    [Over(proc[p]) EXCEPT !.pc = "failed", !.error = e, !.at = proc[p].pc,
                          !.alias = proc[p].alias]

(***************************************************************************)
(* The engine.                                                             *)
(***************************************************************************)

\* indices.exists_alias(name=alias)
exists_alias(alias) == aliases[alias] # {}

\* indices.update_aliases(body={'actions': ...}): one request, applied as a
\* whole or not at all. It fails when an action names an index that does
\* not exist; removing a binding that is not there changes nothing.
update_aliases_ok(removes, index) == (removes \cup {index}) \subseteq indices

update_aliases(removes, index, alias) ==
    [aliases EXCEPT ![alias] = (@ \ removes) \cup {index}]

\* indices.delete(index): the index goes, and every alias binding to it.
indices_delete(index) == [a \in Aliases |-> aliases[a] \ {index}]


(***************************************************************************)
(* ESBoundModel.generate_index and ESBoundModel.bind_alias.                *)
(***************************************************************************)

\* The caller's locals on entry to bind_alias(index, alias); ret names what
\* the caller does once bind_alias has returned.
CallBind(rec, index, alias, ret) ==
    [rec EXCEPT !.pc = "bind_exists", !.index = index, !.alias = alias,
                !.ret = ret, !.old_indicy_names = {}]

\* The continuations with a rebuild_es_index that never deletes the old
\* index.
Return_never_drops(rec) ==
    CASE rec.ret = "init_bind_read" ->
            CallBind(rec, rec.new_indicy, get_read_alias_name, "init_done")
      [] rec.ret = "init_done" -> Done(rec)
      [] rec.ret = "rebuild_scan" -> [rec EXCEPT !.pc = "scan_or"]
      [] rec.ret = "rebuild_drop" -> Done(rec)
      [] OTHER -> [rec EXCEPT !.pc = "idle"]

\* What the caller does after the bind_alias it called has returned.
Return(rec) ==
    CASE rec.ret = "init_bind_read" ->
            CallBind(rec, rec.new_indicy, get_read_alias_name, "init_done")
      [] rec.ret = "init_done" -> Done(rec)
      [] rec.ret = "rebuild_scan" -> [rec EXCEPT !.pc = "scan_or"]
      [] rec.ret = "rebuild_drop" ->
            IF rec.drop_old_index THEN [rec EXCEPT !.pc = "rebuild_delete"]
                                  ELSE Done(rec)
      [] OTHER -> [rec EXCEPT !.pc = "idle"]

\* generate_index: indices.create under a name never used before.
generate_index(p, rec) ==
    /\ uuid < MaxIndex
    /\ uuid' = uuid + 1
    /\ indices' = indices \cup {uuid + 1}
    /\ docs' = [docs EXCEPT ![uuid + 1] = EmptyMap]
    /\ proc' = [proc EXCEPT ![p] = [rec EXCEPT !.new_indicy = uuid + 1]]

\* bind_alias, first request: does the alias exist?
BindExists(p) ==
    /\ proc[p].pc = "bind_exists"
    /\ proc' = [proc EXCEPT ![p].pc =
                   IF exists_alias(proc[p].alias) THEN "bind_get"
                                                  ELSE "bind_update"]
    /\ UNCHANGED <<build, engine, db, sync, overlap, es_fields, last_bind>>

\* get_index_names_from_alias(alias): the indices behind the alias, or
\* NotFoundError when the alias is bound to none.
get_index_names_from_alias(alias) == aliases[alias]

\* bind_alias, second request: the indices the alias is bound to now.
BindGet(p) ==
    /\ proc[p].pc = "bind_get"
    /\ proc' = [proc EXCEPT ![p] =
                   IF exists_alias(proc[p].alias)
                     THEN [proc[p] EXCEPT
                             !.old_indicy_names =
                                 get_index_names_from_alias(proc[p].alias),
                             !.pc = "bind_update"]
                     ELSE Raise(p, "NotFoundError")]
    /\ UNCHANGED <<build, engine, db, sync, overlap, es_fields, last_bind>>

\* bind_alias that adds the new binding and removes none.
bind_alias_keeps_old(index, alias, old_indicy_names) ==
    [aliases EXCEPT ![alias] = @ \cup {index}]

\* The alias table after bind_alias's update_aliases request: the bindings
\* read by the earlier requests are removed and index is added, in one
\* request.
bind_alias(index, alias, old_indicy_names) ==
    update_aliases(old_indicy_names, index, alias)

\* bind_alias, third request.
BindUpdate(p) ==
    /\ proc[p].pc = "bind_update"
    /\ IF update_aliases_ok(proc[p].old_indicy_names, proc[p].index)
         THEN /\ aliases' = bind_alias(proc[p].index, proc[p].alias,
                                       proc[p].old_indicy_names)
              /\ last_bind' = [last_bind EXCEPT ![proc[p].alias] =
                                  proc[p].index]
              /\ proc' = [proc EXCEPT ![p] = Return(proc[p])]
         ELSE /\ UNCHANGED <<aliases, last_bind>>
              /\ proc' = [proc EXCEPT ![p] = Raise(p, "NotFoundError")]
    /\ UNCHANGED <<build, indices, docs, uuid, db, sync, overlap, es_fields>>

BindSteps(p) == BindExists(p) \/ BindGet(p) \/ BindUpdate(p)

(***************************************************************************)
(* utils.queryset_iterator.  A queryset is the set of primary keys its     *)
(* filter admits; the rows it matches are read from the table at the       *)
(* moment a query runs.                                                    *)
(***************************************************************************)

PkUniverse == 1..(MaxPk + MaxScanRows)

Min(a, b) == IF a < b THEN a ELSE b

SetMax(S) == CHOOSE m \in S : \A k \in S : k <= m

SetMin(S) == CHOOSE m \in S : \A k \in S : m <= k

\* The keys of S in ascending order (order_by('pk')).
RECURSIVE order_by_pk(_)
order_by_pk(S) ==
    IF S = {} THEN <<>>
    ELSE <<SetMin(S)>> \o order_by_pk(S \ {SetMin(S)})

\* The primary keys the queryset matches now.
Matching(queryset) == {k \in DOMAIN rows : k \in queryset}

\* The chunk query with pk__gte in place of pk__gt.
queryset_chunk_gte(queryset, pk, chunk_size) ==
    LET above == order_by_pk({k \in {j \in DOMAIN rows : j \in queryset} :
                                 k >= pk})
    IN  SubSeq(above, 1, IF chunk_size < Len(above) THEN chunk_size
                                                     ELSE Len(above))

\* queryset.order_by('pk').filter(pk__gt=pk)[:chunk_size], evaluated now.
queryset_chunk(queryset, pk, chunk_size) ==
    LET above == order_by_pk({k \in Matching(queryset) : k > pk})
    IN  SubSeq(above, 1, Min(chunk_size, Len(above)))

\* The caller's next step once the generator is exhausted.
ScanExhausted(rec) ==
    IF rec.op = "rebuild"
      THEN CallBind(rec, rec.new_indicy, get_read_alias_name, "rebuild_drop")
      ELSE [rec EXCEPT !.pc = "done"]

\* The loop test with pk <= last_pk.
ScanLoop_lte(rec) ==
    IF rec.pk <= rec.last_pk THEN [rec EXCEPT !.pc = "scan_fetch"]
                             ELSE ScanExhausted(rec)

\* while pk < last_pk
ScanLoop(rec) ==
    IF rec.pk < rec.last_pk THEN [rec EXCEPT !.pc = "scan_fetch"]
                            ELSE ScanExhausted(rec)

\* last_pk = queryset.order_by('-pk')[:1].get().pk; an empty queryset ends
\* the generator (ObjectDoesNotExist).
ScanLastPk(p) ==
    /\ proc[p].pc = "scan_last_pk"
    /\ proc' = [proc EXCEPT ![p] =
                   IF Matching(proc[p].queryset) = {}
                     THEN ScanExhausted(proc[p])
                     ELSE ScanLoop([proc[p] EXCEPT
                             !.last_pk = SetMax(Matching(proc[p].queryset)),
                             !.pk = 0])]
    /\ UNCHANGED <<build, engine, db, sync, overlap, es_fields, last_bind>>

\* What the consumer of the generator does with a yielded chunk:
\* rebuild_es_index calls reindex_into_es on it, a plain consumer keeps it.
Yield(rec) ==
    IF rec.op = "rebuild"
      THEN [rec EXCEPT !.pc = "reindex_values"]
      ELSE ScanLoop([rec EXCEPT !.batches = Append(@, rec.chunk)])

\* One turn of the loop: fetch the chunk (len() evaluates it), advance pk to
\* the key of its last row, yield it. Indexing an empty chunk at -1 raises.
ScanFetch(p) ==
    /\ proc[p].pc = "scan_fetch"
    /\ LET chunk == queryset_chunk(proc[p].queryset, proc[p].pk,
                                   proc[p].chunk_size)
       IN  proc' = [proc EXCEPT ![p] =
                       IF chunk = <<>>
                         THEN Raise(p, "AssertionError")
                         ELSE Yield([proc[p] EXCEPT
                                 !.chunk = chunk,
                                 !.gt = proc[p].pk,
                                 !.pk = chunk[Len(chunk)]])]
    /\ UNCHANGED <<build, engine, db, sync, overlap, es_fields, last_bind>>

(***************************************************************************)
(* utils.initialize_es_model_index.                                        *)
(***************************************************************************)

InitializeStart(p) ==
    /\ proc[p].pc = "idle"
    /\ proc' = [proc EXCEPT ![p] =
                   [IdleProc EXCEPT !.pc = "init_lookup", !.op = "initialize"]]
    /\ overlap' = StartOverlap(p)
    /\ UNCHANGED <<build, engine, db, sync, es_fields, last_bind>>

\* initialize that never looks the write alias up.
initialize_always_creates == TRUE

\* Whether initialize goes on to create an index: only when the lookup of
\* the write alias raised NotFoundError.
initialize_creates == ~exists_alias(get_write_alias_name)

\* get_index_names_from_alias(write alias), NotFoundError caught.
InitializeLookup(p) ==
    /\ proc[p].pc = "init_lookup"
    /\ proc' = [proc EXCEPT ![p] =
                   IF initialize_creates
                     THEN [proc[p] EXCEPT !.pc = "init_generate"]
                     ELSE Done(proc[p])]
    /\ UNCHANGED <<build, engine, db, sync, overlap, es_fields, last_bind>>

\* new_indicy = model.generate_index(), then bind_alias(new_indicy, write).
InitializeGenerate(p) ==
    /\ proc[p].pc = "init_generate"
    /\ generate_index(p, CallBind(proc[p], uuid + 1, get_write_alias_name,
                                  "init_bind_read"))
    /\ UNCHANGED <<build, aliases, db, sync, overlap, es_fields, last_bind>>

InitFresh ==
    /\ indices = {}
    /\ aliases = [a \in Aliases |-> {}]
    /\ docs = [i \in IndexNames |-> EmptyMap]
    /\ uuid = 0
    /\ rows = EmptyMap
    /\ pk_seq = 0
    /\ proc = [p \in Procs |-> IdleProc]
    /\ sync = IdleSync
    /\ overlap = FALSE
    /\ last_bind = [a \in Aliases |-> None]
    /\ es_fields = [found |-> FALSE, source |-> None]
    /\ DeclaredAuthor

NextInit ==
    \E p \in Procs :
        \/ InitializeStart(p)
        \/ InitializeLookup(p)
        \/ InitializeGenerate(p)
        \/ BindExists(p)
        \/ BindGet(p)
        \/ BindUpdate(p)

\* Callers of initialize_es_model_index on a fresh engine, one call each.
SpecInit == InitFresh /\ [][NextInit]_vars

(***************************************************************************)
(* ESBoundModel.retrive_es_fields: a get through the read alias.           *)
(***************************************************************************)

\* retrive_es_fields reading through the write alias.
retrive_es_fields_write_alias(pk) ==
    LET targets == aliases[get_write_alias_name]
    IN  IF Cardinality(targets) = 1
           /\ \E i \in targets : pk \in DOMAIN docs[i]
          THEN [found |-> TRUE,
                source |-> docs[CHOOSE i \in targets : TRUE][pk]]
          ELSE [found |-> FALSE, source |-> None]

\* get(id=pk, index=read alias): the document when the alias resolves to one
\* index that holds it; NotFoundError (re-raised as ElasticSearchFailure)
\* when the document or the alias is missing. A get through an alias bound
\* to several indices is refused by the engine.
retrive_es_fields(pk) ==
    LET targets == aliases[get_read_alias_name]
    IN  IF Cardinality(targets) = 1
           /\ \E i \in targets : pk \in DOMAIN docs[i]
          THEN [found |-> TRUE,
                source |-> docs[CHOOSE i \in targets : TRUE][pk]]
          ELSE [found |-> FALSE, source |-> None]

\* The documents a reader gets through the read alias, by primary key.
ReadView ==
    [k \in {j \in Pks : retrive_es_fields(j).found} |->
        retrive_es_fields(k).source]

Read ==
    /\ \E k \in Pks : es_fields' = retrive_es_fields(k)
    /\ UNCHANGED <<build, engine, db, proc, sync, overlap, last_bind>>

(***************************************************************************)
(* ESQuerySetMixin.reindex_into_es.                                        *)
(***************************************************************************)

\* The index name the bulk request is addressed to.
reindex_into_es_index == get_index_name

\* queryset_values = self.values('pk', *es_cached_fields): the chunk's query
\* runs again, now; one document per row it returns.
ReindexValues(p) ==
    /\ proc[p].pc = "reindex_values"
    /\ LET again == queryset_chunk(proc[p].queryset, proc[p].gt,
                                   proc[p].chunk_size)
           pks == {again[n] : n \in 1..Len(again)}
       IN  proc' = [proc EXCEPT ![p].documents = [k \in pks |-> rows[k]],
                                ![p].pc = "reindex_bulk"]
    /\ UNCHANGED <<build, engine, db, sync, overlap, es_fields, last_bind>>

\* The documents of index i after a bulk upsert of documents.
bulk(i, documents) ==
    [k \in DOMAIN docs[i] \cup DOMAIN documents |->
        IF k \in DOMAIN documents THEN documents[k] ELSE docs[i][k]]

\* bulk(client, documents, index=...): one request; the engine creates an
\* index that is named and does not exist. No document, no request.
ReindexBulk(p) ==
    /\ proc[p].pc = "reindex_bulk"
    /\ IF proc[p].documents = EmptyMap
         THEN UNCHANGED <<indices, docs>>
         ELSE /\ indices' = indices \cup {reindex_into_es_index}
              /\ docs' = [docs EXCEPT ![reindex_into_es_index] =
                             bulk(reindex_into_es_index, proc[p].documents)]
    /\ proc' = [proc EXCEPT ![p] = ScanLoop(proc[p])]
    /\ UNCHANGED <<build, aliases, uuid, db, sync, overlap, es_fields, last_bind>>

(***************************************************************************)
(* ESBoundModel.rebuild_es_index(queryset=None, drop_old_index=True).      *)
(***************************************************************************)

\* The querysets a caller passes: None (the whole table) or a filter.
QuerySets == {PkUniverse, {SetMin(Pks)}}

RebuildStart(p) ==
    /\ ~InFlight(p)
    /\ uuid < MaxIndex
    /\ \E queryset \in QuerySets, drop_old_index \in BOOLEAN :
          proc' = [proc EXCEPT ![p] =
                      [IdleProc EXCEPT !.pc = "rebuild_old",
                                       !.op = "rebuild",
                                       !.queryset = queryset,
                                       !.drop_old_index = drop_old_index,
                                       !.chunk_size = chunk_size_default,
                                       !.indexed_before = DOMAIN ReadView,
                                       !.rows_before = DOMAIN rows,
                                       !.write_before =
                                           aliases[get_write_alias_name],
                                       !.retry = (proc[p].pc = "failed")]]
    /\ overlap' = StartOverlap(p)
    /\ UNCHANGED <<build, engine, db, sync, es_fields, last_bind>>

\* old_indicy = get_index_names_from_alias(read alias)[0]
RebuildOld(p) ==
    /\ proc[p].pc = "rebuild_old"
    /\ IF exists_alias(get_read_alias_name)
         THEN \E i \in get_index_names_from_alias(get_read_alias_name) :
                 proc' = [proc EXCEPT ![p].old_indicy = i,
                                      ![p].pc = "rebuild_generate"]
         ELSE proc' = [proc EXCEPT ![p] = Raise(p, "NotFoundError")]
    /\ UNCHANGED <<build, engine, db, sync, overlap, es_fields, last_bind>>

\* rebuild_es_index binding the read alias where it binds the write alias.
rebuild_first_alias_read == get_read_alias_name

\* The alias rebuild_es_index binds to the new index before it populates it.
rebuild_first_alias == get_write_alias_name

\* new_indicy = cls.generate_index(), then bind_alias(new_indicy, write).
RebuildGenerate(p) ==
    /\ proc[p].pc = "rebuild_generate"
    /\ generate_index(p, CallBind(proc[p], uuid + 1, rebuild_first_alias,
                                  "rebuild_scan"))
    /\ UNCHANGED <<build, aliases, db, sync, overlap, es_fields, last_bind>>

\* queryset or cls.objects.all(): a queryset that matches no row is falsy.
ScanOr(p) ==
    /\ proc[p].pc = "scan_or"
    /\ proc' = [proc EXCEPT ![p].queryset =
                   IF Matching(proc[p].queryset) = {} THEN PkUniverse
                                                      ELSE proc[p].queryset,
                            ![p].pc = "scan_last_pk"]
    /\ UNCHANGED <<build, engine, db, sync, overlap, es_fields, last_bind>>

\* if drop_old_index: indices.delete(old_indicy)
RebuildDelete(p) ==
    /\ proc[p].pc = "rebuild_delete"
    /\ IF proc[p].old_indicy \in indices
         THEN /\ indices' = indices \ {proc[p].old_indicy}
              /\ aliases' = indices_delete(proc[p].old_indicy)
              /\ docs' = [docs EXCEPT ![proc[p].old_indicy] = EmptyMap]
              /\ proc' = [proc EXCEPT ![p] = Done(proc[p])]
         ELSE /\ proc' = [proc EXCEPT ![p] = Raise(p, "NotFoundError")]
              /\ UNCHANGED <<indices, aliases, docs>>
    /\ UNCHANGED <<build, uuid, db, sync, overlap, es_fields, last_bind>>

\* The steps of rebuild_es_index that are a request to the engine.
EngineRequests ==
    {"rebuild_old", "rebuild_generate", "bind_exists", "bind_get",
     "bind_update", "reindex_bulk", "rebuild_delete"}

\* The engine is unreachable, or answers with an error: the request has no
\* effect and the exception leaves rebuild_es_index.
RebuildFail(p) ==
    /\ proc[p].op = "rebuild"
    /\ proc[p].pc \in EngineRequests
    /\ proc' = [proc EXCEPT ![p] = Raise(p, "TransportError")]
    /\ UNCHANGED <<build, engine, db, sync, overlap, es_fields, last_bind>>

(***************************************************************************)
(* ESBoundModel.save and ESBoundModel.delete.                              *)
(***************************************************************************)

\* super().save(): the relational write of a new row (the table hands out
\* the next primary key) or of a row that exists.
SaveDb ==
    /\ sync.pc = "idle"
    /\ sync.calls < MaxSyncs
    /\ \E v \in Vals :
          \/ /\ pk_seq < MaxPk
             /\ pk_seq' = pk_seq + 1
             /\ rows' = [k \in DOMAIN rows \cup {pk_seq + 1} |->
                            IF k = pk_seq + 1 THEN v ELSE rows[k]]
             /\ sync' = [pc |-> "save_index", pk |-> pk_seq + 1, val |-> v,
                         error |-> "none", cause |-> "none",
                         calls |-> sync.calls + 1,
                         during |-> InFlight(Operator)]
          \/ \E k \in DOMAIN rows :
                /\ rows' = [rows EXCEPT ![k] = v]
                /\ pk_seq' = pk_seq
                /\ sync' = [pc |-> "save_index", pk |-> k, val |-> v,
                            error |-> "none", cause |-> "none",
                         calls |-> sync.calls + 1,
                         during |-> InFlight(Operator)]
    /\ UNCHANGED <<build, engine, proc, overlap, es_fields, last_bind>>

\* save and delete addressing the read alias.
write_targets_read_alias ==
    IF Cardinality(aliases[get_read_alias_name]) = 1
      THEN aliases[get_read_alias_name]
      ELSE {}

\* The indices a single-document request through the write alias reaches:
\* the request is refused unless the alias resolves to exactly one index.
write_targets ==
    IF Cardinality(aliases[get_write_alias_name]) = 1
      THEN aliases[get_write_alias_name]
      ELSE {}

\* index(id=self.pk, index=write alias, body=build_document_from_model(self))
SaveIndex ==
    /\ sync.pc = "save_index"
    /\ IF write_targets = {}
         THEN /\ sync' = [sync EXCEPT
                            !.pc = "idle",
                            !.error = "UnableToSaveModelToElasticSearch",
                            !.cause = "RequestError"]
              /\ docs' = docs
         ELSE /\ docs' = [i \in IndexNames |->
                            IF i \in write_targets
                              THEN bulk(i, [k \in {sync.pk} |-> sync.val])
                              ELSE docs[i]]
              /\ sync' = [sync EXCEPT !.pc = "idle"]
    /\ UNCHANGED <<build, indices, aliases, uuid, db, proc, overlap, es_fields, last_bind>>

\* A delete request that leaves the document where it is.
delete_document_keeps(i, pk) == docs[i]

\* The documents of index i after delete(index=..., id=pk).
delete_document(i, pk) == [k \in DOMAIN docs[i] \ {pk} |-> docs[i][k]]

\* author_document_id = self.pk; super().delete()
DeleteDb ==
    /\ sync.pc = "idle"
    /\ sync.calls < MaxSyncs
    /\ \E k \in DOMAIN rows :
          /\ rows' = [j \in DOMAIN rows \ {k} |-> rows[j]]
          /\ sync' = [pc |-> "delete_index", pk |-> k, val |-> None,
                      error |-> "none", cause |-> "none",
                         calls |-> sync.calls + 1,
                         during |-> InFlight(Operator)]
    /\ UNCHANGED <<build, engine, pk_seq, proc, overlap, es_fields, last_bind>>

\* delete(index=write alias, id=author_document_id): NotFoundError when the
\* document is not there; every exception is re-raised as
\* UnableToDeleteModelFromElasticSearch.
DeleteIndex ==
    /\ sync.pc = "delete_index"
    /\ IF \E i \in write_targets : sync.pk \in DOMAIN docs[i]
         THEN /\ docs' = [i \in IndexNames |->
                            IF i \in write_targets
                              THEN delete_document(i, sync.pk)
                              ELSE docs[i]]
              /\ sync' = [sync EXCEPT !.pc = "idle"]
         ELSE /\ docs' = docs
              /\ sync' = [sync EXCEPT
                            !.pc = "idle",
                            !.error = "UnableToDeleteModelFromElasticSearch",
                            !.cause = IF write_targets = {}
                                        THEN "RequestError"
                                        ELSE "NotFoundError"]
    /\ UNCHANGED <<build, indices, aliases, uuid, db, proc, overlap, es_fields, last_bind>>

\* The index or delete request of save or delete fails for a reason that is
\* not the state of the index (engine unreachable, authentication): the
\* request has no effect, and the except clause re-raises.
SyncFail ==
    /\ sync.pc \in {"save_index", "delete_index"}
    /\ sync' = [sync EXCEPT
                  !.pc = "idle",
                  !.error = IF sync.pc = "save_index"
                              THEN "UnableToSaveModelToElasticSearch"
                              ELSE "UnableToDeleteModelFromElasticSearch",
                  !.cause = "TransportError"]
    /\ UNCHANGED <<build, engine, db, proc, overlap, es_fields, last_bind>>

(***************************************************************************)
(* The lifecycle: a bootstrapped entity type whose rows were saved, and    *)
(* callers of rebuild_es_index, save, delete and retrive_es_fields.        *)
(***************************************************************************)

InitBootstrapped ==
    /\ indices = {1}
    /\ aliases = [a \in Aliases |-> {1}]
    /\ uuid = 1
    /\ \E n \in 0..MaxInitRows :
          /\ pk_seq = n
          /\ rows \in [1..n -> Vals]
          /\ docs = [i \in IndexNames |-> IF i = 1 THEN rows ELSE EmptyMap]
    /\ proc = [p \in Procs |-> IdleProc]
    /\ sync = IdleSync
    /\ overlap = FALSE
    /\ last_bind = [a \in Aliases |-> 1]
    /\ es_fields = [found |-> FALSE, source |-> None]
    /\ DeclaredAuthor

RebuildStep(p) ==
    \/ RebuildStart(p)
    \/ RebuildOld(p)
    \/ RebuildGenerate(p)
    \/ BindExists(p)
    \/ BindGet(p)
    \/ BindUpdate(p)
    \/ ScanOr(p)
    \/ ScanLastPk(p)
    \/ ScanFetch(p)
    \/ ReindexValues(p)
    \/ ReindexBulk(p)
    \/ RebuildDelete(p)

Next ==
    \/ RebuildStep(Operator)
    \/ RebuildFail(Operator)
    \/ SaveDb
    \/ SaveIndex
    \/ DeleteDb
    \/ DeleteIndex
    \/ Read

\* One operator calling rebuild_es_index again and again, each call over
\* before the next, over an engine whose requests may fail; single-row
\* syncs and reads run between the steps.
Spec == InitBootstrapped /\ [][Next]_vars

NextSerial ==
    \/ RebuildStep(Operator)
    \/ RebuildFail(Operator)
    \/ Read

\* Rebuilds called one after the other on a table nobody writes to, any
\* engine request of a rebuild failing, and reads between their steps.
SpecSerial == InitBootstrapped /\ [][NextSerial]_vars

\* The state a rebuild_es_index leaves when it fails while it populates the
\* new index: the write alias is on the new index, the read alias on the
\* old one, which holds the documents of the rows saved so far.
InitInterrupted ==
    /\ indices = {1, 2}
    /\ aliases = [a \in Aliases |->
                     IF a = get_write_alias_name THEN {2} ELSE {1}]
    /\ uuid = 2
    /\ \E n \in 0..MaxInitRows :
          /\ pk_seq = n
          /\ rows \in [1..n -> Vals]
          /\ docs = [i \in IndexNames |-> IF i = 1 THEN rows ELSE EmptyMap]
    /\ proc = [p \in Procs |-> IdleProc]
    /\ sync = IdleSync
    /\ overlap = FALSE
    /\ last_bind = [a \in Aliases |->
                       IF a = get_write_alias_name THEN 2 ELSE 1]
    /\ es_fields = [found |-> FALSE, source |-> None]
    /\ DeclaredAuthor

InitSync == InitBootstrapped \/ InitInterrupted

NextSync ==
    \/ SaveDb
    \/ SaveIndex
    \/ DeleteDb
    \/ DeleteIndex
    \/ SyncFail
    \/ Read

\* One caller of save and delete, one call after the other, over an engine
\* whose requests may fail, with no rebuild running; reads in between.
SpecSync == InitSync /\ [][NextSync]_vars

NextConcurrent ==
    \/ \E p \in Procs : RebuildStep(p)
    \/ Read

\* Rebuilds that overlap in time, and reads between their steps.
SpecConcurrent == InitBootstrapped /\ [][NextConcurrent]_vars

(***************************************************************************)
(* One caller using the alias API directly: generate_index and bind_alias  *)
(* calls, one after the other, with any index name and any alias.          *)
(***************************************************************************)

ApiCaller == 1

ApiGenerate(p) ==
    /\ ~InFlight(p)
    /\ generate_index(p, [IdleProc EXCEPT !.op = "api"])
    /\ UNCHANGED <<build, aliases, db, sync, overlap, es_fields, last_bind>>

ApiBind(p) ==
    /\ ~InFlight(p)
    /\ \E index \in UuidNames, alias \in Aliases :
          proc' = [proc EXCEPT ![p] =
                      CallBind([IdleProc EXCEPT !.op = "api"],
                               index, alias, "idle")]
    /\ UNCHANGED <<build, engine, db, sync, overlap, es_fields, last_bind>>

NextBind ==
    \/ ApiGenerate(ApiCaller)
    \/ ApiBind(ApiCaller)
    \/ BindExists(ApiCaller)
    \/ BindGet(ApiCaller)
    \/ BindUpdate(ApiCaller)

SpecBind == InitFresh /\ [][NextBind]_vars

(***************************************************************************)
(* Claims on bind_alias and initialize_es_model_index.                     *)
(***************************************************************************)

AllDone == \A p \in Procs : proc[p].pc = "done"

\* bind_alias has returned to the API caller without raising.
BindReturned ==
    /\ proc[ApiCaller].op = "api"
    /\ proc[ApiCaller].pc = "idle"
    /\ proc[ApiCaller].index # None

\* C3: over any sequence of bind_alias calls by one caller, in every step
\* (the steps between the three engine requests of one call included) an
\* alias is bound to at most one index and, once bound to one, is never
\* bound to none; and when bind_alias(index, alias) has returned, the alias
\* resolves to exactly that index.
C3_BindAliasSingleIndex ==
    /\ [][\A a \in Aliases :
            /\ Cardinality(aliases'[a]) <= 1
            /\ aliases[a] # {} => aliases'[a] # {}]_vars
    /\ [](BindReturned =>
            aliases[proc[ApiCaller].alias] = {proc[ApiCaller].index})

\* A second bind_alias has moved an alias from one index to another.
C3_Witness ==
    /\ BindReturned
    /\ proc[ApiCaller].index = 2
    /\ aliases[proc[ApiCaller].alias] = {2}
    /\ aliases[get_write_alias_name] # aliases[get_read_alias_name]
    /\ aliases[get_write_alias_name] # {}
    /\ aliases[get_read_alias_name] # {}

\* C4: when two initialize calls run one after the other on a fresh entity
\* type, exactly one index exists at the end and both aliases are bound to
\* it alone; and no step taken after the first call has finished creates an
\* index or changes an alias.
C4_IdempotentBootstrap ==
    /\ []((AllDone /\ ~overlap) =>
            /\ Cardinality(indices) = 1
            /\ aliases[get_read_alias_name] = indices
            /\ aliases[get_write_alias_name] = indices)
    /\ [][(~overlap' /\ \E q \in Procs : proc[q].pc = "done") =>
            /\ indices' = indices
            /\ aliases' = aliases
            /\ uuid' = uuid]_vars

\* Both calls have returned, the second having started after the first.
C4_Witness ==
    /\ AllDone
    /\ ~overlap
    /\ indices = {1}

\* C5: when the initialize calls interleave, after all of them have
\* returned exactly one index carries both aliases and each alias resolves
\* to exactly one index.
C5_ConcurrentInitializeSafe ==
    AllDone =>
        \E i \in indices :
            /\ aliases[get_read_alias_name] = {i}
            /\ aliases[get_write_alias_name] = {i}

(***************************************************************************)
(* The scanner alone: list(queryset_iterator(Model.objects.all(), C)) over *)
(* a table of rows 1..N that nothing else writes.                          *)
(***************************************************************************)

Scanner == 1

InitScan ==
    /\ indices = {}
    /\ aliases = [a \in Aliases |-> {}]
    /\ docs = [i \in IndexNames |-> EmptyMap]
    /\ uuid = 0
    /\ \E n \in 0..MaxScanRows :
          /\ rows = [k \in 1..n |-> 1]
          /\ pk_seq = n
    /\ sync = IdleSync
    /\ \E c \in 1..MaxChunk :
          proc = [p \in Procs |->
                    IF p = Scanner
                      THEN [IdleProc EXCEPT !.pc = "scan_last_pk",
                                            !.op = "scan",
                                            !.queryset = PkUniverse,
                                            !.chunk_size = c]
                      ELSE IdleProc]
    /\ overlap = FALSE
    /\ last_bind = [a \in Aliases |-> None]
    /\ es_fields = [found |-> FALSE, source |-> None]
    /\ DeclaredAuthor

NextScan ==
    \/ ScanLastPk(Scanner)
    \/ ScanFetch(Scanner)

\* The generator is consumed in a loop that nothing suspends.
SpecScan == InitScan /\ [][NextScan]_vars /\ WF_vars(NextScan)

RECURSIVE Concat(_)
Concat(seqs) ==
    IF seqs = <<>> THEN <<>> ELSE Head(seqs) \o Concat(Tail(seqs))

\* C6: over a table of rows 1..N and any chunk size C >= 1, with no
\* concurrent writes, the scan terminates, without an error, having yielded
\* ceil(N/C) batches (none for an empty table) of at most C rows each, whose
\* concatenation is 1..N in ascending order, each row once.
C6_ScanCoverage ==
    LET s == proc[Scanner]
        N == Cardinality(DOMAIN rows)
    IN  /\ <>(s.pc = "done")
        /\ [](s.pc # "failed")
        /\ [](s.pc = "done" =>
                /\ Len(s.batches) = (N + s.chunk_size - 1) \div s.chunk_size
                /\ \A b \in 1..Len(s.batches) :
                      /\ Len(s.batches[b]) <= s.chunk_size
                      /\ Len(s.batches[b]) >= 1
                /\ Concat(s.batches) = [k \in 1..N |-> k])

\* A scan that ended with a last batch shorter than the others.
C6_Witness ==
    /\ proc[Scanner].pc = "done"
    /\ Len(proc[Scanner].batches) = 3
    /\ Len(proc[Scanner].batches[3]) < Len(proc[Scanner].batches[1])

(***************************************************************************)
(* Claims on rebuild_es_index.                                             *)
(***************************************************************************)

Rebuilder == proc[Operator]

WholeTable(rec) == rec.op = "rebuild" /\ rec.queryset = PkUniverse

Found(k, v) == retrive_es_fields(k) = [found |-> TRUE, source |-> v]

\* C1: from the start of a rebuild of the whole table on, with no save or
\* delete in between, a read through the read alias of an id that was
\* indexed before the rebuild started finds the document, with the row's
\* values, at every step: never not-found, never a partly populated index.
C1_ZeroDowntimeCutover ==
    (WholeTable(Rebuilder) /\ sync.calls = 0) =>
        \A k \in Rebuilder.indexed_before : Found(k, rows[k])

\* C2: a single save or delete that started while the rebuild of the whole
\* table was in flight is not lost: once the rebuild and the sync have both
\* finished, a saved entity is read through the read alias with the values
\* it was saved with, and a deleted entity is not found.
C2_SyncDuringRebuildNotLost ==
    (/\ WholeTable(Rebuilder)
     /\ Rebuilder.pc = "done"
     /\ ~Rebuilder.retry
     /\ sync.calls = 1
     /\ sync.during
     /\ sync.pc = "idle"
     /\ sync.error = "none") =>
        IF sync.val = None THEN ~retrive_es_fields(sync.pk).found
                           ELSE Found(sync.pk, sync.val)

\* C7: after two rebuilds of the whole table that overlapped have both
\* finished, the read alias resolves to one index, the one the last
\* read-alias bind named, and that index holds a document for every row.
C7_ConcurrentRebuildsNoLoss ==
    (/\ \A p \in Procs : WholeTable(proc[p]) /\ proc[p].pc = "done"
     /\ overlap) =>
        /\ aliases[get_read_alias_name] = {last_bind[get_read_alias_name]}
        /\ \A i \in aliases[get_read_alias_name] :
              DOMAIN rows \subseteq DOMAIN docs[i]

\* The steps of rebuild_es_index before the write alias is rebound (index
\* creation, the write-alias bind) and the steps that populate.
FailedEarly ==
    /\ Rebuilder.pc = "failed"
    /\ \/ Rebuilder.at = "rebuild_generate"
       \/ /\ Rebuilder.at \in {"bind_exists", "bind_get", "bind_update"}
          /\ Rebuilder.alias = get_write_alias_name

FailedPopulating ==
    /\ Rebuilder.pc = "failed"
    /\ Rebuilder.at \in {"scan_fetch", "reindex_bulk"}

\* The read alias still serves the old index, which exists.
OldStillServing ==
    /\ aliases[get_read_alias_name] = {Rebuilder.old_indicy}
    /\ Rebuilder.old_indicy \in indices

C9_DropOldIndex ==
    (Rebuilder.op = "rebuild" /\ Rebuilder.pc = "done") =>
        IF Rebuilder.drop_old_index
          THEN Rebuilder.old_indicy \notin indices
          ELSE /\ Rebuilder.old_indicy \in indices
               /\ \A a \in Aliases : Rebuilder.old_indicy \notin aliases[a]
               /\ aliases[get_read_alias_name] = {Rebuilder.new_indicy}
               /\ Rebuilder.new_indicy # Rebuilder.old_indicy
               /\ Rebuilder.new_indicy \in indices

\* A rebuild that kept the old index has returned, after one that dropped
\* its own.
C9_Witness ==
    /\ Rebuilder.pc = "done"
    /\ ~Rebuilder.drop_old_index
    /\ Rebuilder.old_indicy = 2
    /\ 1 \notin indices
    /\ 2 \in indices

\* C10: once a rebuild of the whole table has returned, with no save or
\* delete since it started, every row that was in the table when it started
\* is found through the read alias.
C10_RebuildIndexesEveryRow ==
    (WholeTable(Rebuilder) /\ Rebuilder.pc = "done" /\ sync.calls = 0) =>
        \A k \in Rebuilder.rows_before : retrive_es_fields(k).found

(***************************************************************************)
(* save and delete: claims.                                                *)
(***************************************************************************)

SaveReturned == sync.pc = "idle" /\ sync.calls > 0 /\ sync.val # None

DeleteReturned == sync.pc = "idle" /\ sync.calls > 0 /\ sync.val = None

\* A get of id k through alias a, as the engine answers it.
ThroughAlias(a, k) ==
    IF Cardinality(aliases[a]) = 1 /\ \E i \in aliases[a] : k \in DOMAIN docs[i]
      THEN [found |-> TRUE, source |-> docs[CHOOSE i \in aliases[a] : TRUE][k]]
      ELSE [found |-> FALSE, source |-> None]

\* C11: when save sends its index request the row already holds the saved
\* values; a request that succeeds puts the row's values under the row's
\* primary key into the index behind the write alias and changes no other
\* document; a request that fails makes save raise
\* UnableToSaveModelToElasticSearch, changes no document, and the row keeps
\* the saved values.
C11_SaveOrderAndFailure ==
    /\ [](sync.pc = "save_index" =>
            sync.pk \in DOMAIN rows /\ rows[sync.pk] = sync.val)
    /\ []((SaveReturned /\ (sync.error # "none" \/ sync.cause # "none")) =>
            /\ sync.error = "UnableToSaveModelToElasticSearch"
            /\ sync.pk \in DOMAIN rows
            /\ rows[sync.pk] = sync.val)
    /\ [][(sync.pc = "save_index" /\ sync'.pc = "idle") =>
            /\ rows' = rows
            /\ IF sync'.error = "none"
                 THEN \E w \in IndexNames :
                        /\ aliases[get_write_alias_name] = {w}
                        /\ DOMAIN docs'[w] = DOMAIN docs[w] \cup {sync.pk}
                        /\ docs'[w][sync.pk] = sync.val
                        /\ \A k \in DOMAIN docs[w] \ {sync.pk} :
                              docs'[w][k] = docs[w][k]
                        /\ \A i \in IndexNames \ {w} : docs'[i] = docs[i]
                 ELSE docs' = docs]_vars

\* A save has failed after an earlier save went into the index behind the
\* write alias, which is not the index behind the read alias.
C11_Witness ==
    /\ SaveReturned
    /\ sync.error = "UnableToSaveModelToElasticSearch"
    /\ rows[sync.pk] = sync.val
    /\ aliases[get_write_alias_name] = {2}
    /\ aliases[get_read_alias_name] = {1}
    /\ docs[2] # EmptyMap

\* C13: a delete whose document was already absent from the index returns
\* without an error; delete raises only when its request failed for another
\* reason.
C13_DeleteIdempotent ==
    DeleteReturned =>
        (sync.error # "none" <=> sync.cause \in {"TransportError",
                                                 "RequestError"})

\* The caller's own rows: created by a save of this caller, or saved while
\* both aliases were on the one index they are still on.
OwnDocument(k) ==
    \/ k > MaxInitRows
    \/ aliases[get_read_alias_name] = aliases[get_write_alias_name]

\* C14: once the delete of an entity the caller created has returned
\* without an error, a get of its id through the read alias finds nothing,
\* and a document that is absent for a deleted row stays absent.
C14_CreateThenDeleteAbsent ==
    /\ []((DeleteReturned /\ sync.error = "none" /\ OwnDocument(sync.pk)) =>
            ~retrive_es_fields(sync.pk).found)
    /\ [][\A k \in Pks :
            (k <= pk_seq /\ k \notin DOMAIN rows
                /\ ~retrive_es_fields(k).found) =>
                    ~(retrive_es_fields(k).found)']_vars

\* The caller has created an entity and then deleted it, nothing else.
C14_Witness ==
    /\ DeleteReturned
    /\ sync.error = "none"
    /\ sync.calls = 2
    /\ pk_seq = MaxInitRows + 1
    /\ sync.pk = pk_seq
    /\ DOMAIN rows = 1..MaxInitRows

\* C20: every result of retrive_es_fields is the engine's answer to a get
\* through the read alias, and every document that save or delete changes
\* is in the index behind the write alias.
C20_AliasDiscipline ==
    [][/\ es_fields' # es_fields =>
            \E k \in Pks : es_fields' = ThroughAlias(get_read_alias_name, k)
       /\ \A i \in IndexNames :
            docs'[i] # docs[i] => aliases[get_write_alias_name] = {i}]_vars

\* A save has changed a document behind the write alias and a read has
\* returned the document the read alias still serves.
C20_Witness ==
    /\ sync.pc = "idle"
    /\ sync.calls > 0
    /\ aliases[get_write_alias_name] = {2}
    /\ aliases[get_read_alias_name] = {1}
    /\ es_fields.found
    /\ \E k \in DOMAIN docs[1] \cap DOMAIN docs[2] :
          /\ docs[1][k] # docs[2][k]
          /\ es_fields.source = docs[1][k]

(***************************************************************************)
(* The document builders, field by field: utils.build_document_from_model  *)
(* and utils.build_documents_from_queryset over the Author schema of the   *)
(* test application (user, publishing_name, age).  In the lifecycle model  *)
(* above a document stands for its row; here a row is a record of typed    *)
(* column values and a document a map from field names to values.          *)
(* A text is coded by a number: the texts of the rows are positive, the    *)
(* text 'None' is 0, the hex texts of uuid4 are negative.                  *)
(***************************************************************************)

StrValue(c) == [type |-> "str", v |-> c]
IntValue(n) == [type |-> "int", v |-> n]
ModelRef(k) == [type |-> "Model", v |-> k]
NoneValue == [type |-> "NoneType", v |-> None]

\* str(value) of Python: a str is its own text, str(None) is 'None'.
str(value) == IF value.type = "str" THEN value.v ELSE None

\* ESBoundModel.convert_model_field_to_es_format. The schema has no date
\* or datetime column, so the strftime branch has no input here.
convert_model_field_to_es_format(value) ==
    CASE value.type = "Model" -> IntValue(value.v)
      [] value.type \in {"int", "float"} -> value
      [] OTHER -> StrValue(str(value))

\* model_fields with every name on it.
model_fields_any == {"id", "user", "publishing_name", "age", "nickname"}

\* [f.name for f in model._meta.fields]
model_fields == {"id", "user", "publishing_name", "age"}

\* getattr(model, field) on the instance of row pk: a foreign key attribute
\* is the referenced instance. The callers have checked the name; for a
\* name the instance does not have the model yields None.
getattr(pk, row, field) ==
    CASE field \in {"pk", "id"} -> IntValue(pk)
      [] field = "user" -> ModelRef(row.user.v)
      [] field \in DOMAIN row -> row[field]
      [] OTHER -> NoneValue

\* One column of queryset.values(...): a foreign key is the stored key.
values(pk, row, field) ==
    CASE field \in {"pk", "id"} -> IntValue(pk)
      [] field \in DOMAIN row -> row[field]
      [] OTHER -> NoneValue

Range(seq) == {seq[n] : n \in 1..Len(seq)}

\* dict.update({name: value})
update(document, name, value) ==
    [f \in DOMAIN document \cup {name} |->
        IF f = name THEN value ELSE document[f]]

\* ExtraModelFieldBase.get_custom_field_name: the provider's field_name.
get_custom_field_name(field_class) ==
    IF field_class = "UniqueIdentiferField" THEN "unique_identifer"
                                           ELSE "incomplete"

\* custom_model_field_map(model_pks) of a provider class: the test
\* application's UniqueIdentiferField gives each key a fresh uuid4().hex;
\* IncompleteField is a provider that returns no value for the first key of
\* the table.
custom_model_field_map(field_class, model_pks, drawn) ==
    [k \in IF field_class = "UniqueIdentiferField"
             THEN model_pks
             ELSE model_pks \ {SetMin(Pks)} |->
        StrValue(0 - (drawn + Cardinality({j \in model_pks : j <= k})))]

\* The rows a save writes.
RowVals ==
    [publishing_name : {StrValue(v) : v \in 1..MaxName} \cup {NoneValue},
     user : {IntValue(u) : u \in 1..MaxUser},
     age : {IntValue(MaxName)}]

\* build_document_from_model, second loop: one provider after the other,
\* each asked for the one key; a key missing from the answer is a KeyError.
RECURSIVE extra_fields_of_model(_, _, _, _)
extra_fields_of_model(document, pk, field_classes, drawn) ==
    IF field_classes = <<>>
      THEN [error |-> "none", document |-> document, drawn |-> drawn]
      ELSE LET field_class == Head(field_classes)
               custom_field_values ==
                   custom_model_field_map(field_class, {pk}, drawn)
           IN  IF pk \notin DOMAIN custom_field_values
                 THEN [error |-> "KeyError", document |-> EmptyMap,
                       drawn |-> drawn + 1]
                 ELSE extra_fields_of_model(
                          update(document, get_custom_field_name(field_class),
                                 custom_field_values[pk]),
                          pk, Tail(field_classes), drawn + 1)

\* build_document_from_model(model) for the instance of row pk.
build_document_from_model(pk, row) ==
    IF \E f \in Range(es_cached_model_fields) :
           f \notin model_fields /\ f # "pk"
      THEN [error |-> "NominatedFieldDoesNotExistForESIndexingException",
            document |-> EmptyMap, drawn |-> uuid4]
      ELSE extra_fields_of_model(
               [f \in Range(es_cached_model_fields) |->
                   convert_model_field_to_es_format(getattr(pk, row, f))],
               pk, es_cached_extra_fields, uuid4)

\* field_list = queryset.model.es_cached_model_fields, with 'pk' appended
\* to it when it is not there: the list is the class attribute itself.
field_list ==
    IF "pk" \in Range(es_cached_model_fields)
      THEN es_cached_model_fields
      ELSE Append(es_cached_model_fields, "pk")

\* The documents dict that leaves out the rows of an entity type with no
\* cached field of its own.
source_documents_skips_fieldless(queryset) ==
    [k \in IF Range(field_list) = {"pk"} THEN {} ELSE Matching(queryset) |->
        [_id |-> k,
         _source |-> [f \in Range(field_list) |->
                        convert_model_field_to_es_format(
                            values(k, rows[k], f))]]]

\* documents = {pk: {'_id': pk, '_source': {k: convert(v), ...}}} over the
\* rows of queryset.values(*field_list).
source_documents(queryset) ==
    [k \in Matching(queryset) |->
        [_id |-> k,
         _source |-> [f \in Range(field_list) |->
                        convert_model_field_to_es_format(
                            values(k, rows[k], f))]]]

\* build_documents_from_queryset, last loop: each provider is asked once,
\* for all the keys; a key missing from its answer is a KeyError.
RECURSIVE extra_fields_of_queryset(_, _, _)
extra_fields_of_queryset(documents, field_classes, drawn) ==
    IF field_classes = <<>>
      THEN [error |-> "none", documents |-> documents, drawn |-> drawn]
      ELSE LET field_class == Head(field_classes)
               custom_field_values ==
                   custom_model_field_map(field_class, DOMAIN documents, drawn)
               after == drawn + Cardinality(DOMAIN documents)
           IN  IF \E pk \in DOMAIN documents :
                      pk \notin DOMAIN custom_field_values
                 THEN [error |-> "KeyError", documents |-> EmptyMap,
                       drawn |-> after]
                 ELSE extra_fields_of_queryset(
                          [pk \in DOMAIN documents |->
                              [documents[pk] EXCEPT
                                  !._source =
                                      update(@,
                                             get_custom_field_name(field_class),
                                             custom_field_values[pk])]],
                          Tail(field_classes), after)

\* build_documents_from_queryset(queryset); queryset.values raises
\* FieldError for a name that is no field of the model.
build_documents_from_queryset(queryset) ==
    IF \E f \in Range(field_list) : f \notin model_fields \cup {"pk"}
      THEN [error |-> "NominatedFieldDoesNotExistForESIndexingException",
            documents |-> EmptyMap, drawn |-> uuid4]
      ELSE extra_fields_of_queryset(source_documents(queryset),
                                    es_cached_extra_fields, uuid4)

\* A caller builds the document of one row it has fetched.
BuildOne ==
    /\ built.calls < MaxBuilds
    /\ \E k \in DOMAIN rows :
          LET r == build_document_from_model(k, rows[k])
          IN  /\ built' = [op |-> "build_document_from_model",
                          error |-> r.error,
                          documents |-> IF r.error = "none"
                                          THEN [j \in {k} |-> r.document]
                                          ELSE EmptyMap,
                          pks |-> {k}, calls |-> built.calls + 1]
              /\ uuid4' = r.drawn
    /\ UNCHANGED <<engine, db, proc, sync, overlap, last_bind, es_fields,
                   es_cached_model_fields, es_cached_extra_fields, requests,
                   declared>>

\* A caller builds the documents of a queryset.
BuildMany ==
    /\ built.calls < MaxBuilds
    /\ \E queryset \in QuerySets :
          LET r == build_documents_from_queryset(queryset)
          IN  /\ built' = [op |-> "build_documents_from_queryset",
                          error |-> r.error, documents |-> r.documents,
                          pks |-> Matching(queryset),
                          calls |-> built.calls + 1]
              /\ uuid4' = r.drawn
    /\ es_cached_model_fields' = field_list
    /\ UNCHANGED <<engine, db, proc, sync, overlap, last_bind, es_fields,
                   es_cached_extra_fields, requests, declared>>

\* save, super().save(): as SaveDb, the row written column by column.
ModelSaveDb ==
    /\ sync.pc = "idle"
    /\ sync.calls < MaxSyncs
    /\ \E v \in RowVals :
          \/ /\ pk_seq < MaxPk
             /\ pk_seq' = pk_seq + 1
             /\ rows' = [k \in DOMAIN rows \cup {pk_seq + 1} |->
                            IF k = pk_seq + 1 THEN v ELSE rows[k]]
             /\ sync' = [IdleSync EXCEPT !.pc = "model_save_index",
                                         !.pk = pk_seq + 1, !.val = v,
                                         !.calls = sync.calls + 1]
          \/ \E k \in DOMAIN rows :
                /\ rows' = [rows EXCEPT ![k] = v]
                /\ pk_seq' = pk_seq
                /\ sync' = [IdleSync EXCEPT !.pc = "model_save_index",
                                            !.pk = k, !.val = v,
                                            !.calls = sync.calls + 1]
    /\ UNCHANGED <<build, engine, proc, overlap, es_fields, last_bind>>

\* save, the try block: build_document_from_model(self) is evaluated first;
\* an exception it raises is caught with those of the index request and
\* re-raised as UnableToSaveModelToElasticSearch.
ModelSaveIndex ==
    /\ sync.pc = "model_save_index"
    /\ LET r == build_document_from_model(sync.pk, sync.val)
       IN  /\ uuid4' = r.drawn
           /\ IF r.error # "none"
                THEN /\ sync' = [sync EXCEPT
                                   !.pc = "idle",
                                   !.error = "UnableToSaveModelToElasticSearch",
                                   !.cause = r.error]
                     /\ UNCHANGED <<docs, requests>>
                ELSE /\ requests' = requests + 1
                     /\ IF write_targets = {}
                          THEN /\ sync' = [sync EXCEPT
                                    !.pc = "idle",
                                    !.error = "UnableToSaveModelToElasticSearch",
                                    !.cause = "RequestError"]
                               /\ docs' = docs
                          ELSE /\ docs' = [i \in IndexNames |->
                                    IF i \in write_targets
                                      THEN bulk(i, [k \in {sync.pk} |->
                                                      r.document])
                                      ELSE docs[i]]
                               /\ sync' = [sync EXCEPT !.pc = "idle"]
    /\ UNCHANGED <<indices, aliases, uuid, db, proc, overlap, es_fields,
                   last_bind, es_cached_model_fields, es_cached_extra_fields,
                   built, declared>>

\* queryset.update(publishing_name=...): one UPDATE statement, no save().
QuerysetUpdate ==
    /\ sync.pc = "idle"
    /\ \E queryset \in QuerySets, v \in 1..MaxName :
          /\ Matching(queryset) # {}
          /\ rows' = [k \in DOMAIN rows |->
                         IF k \in queryset
                           THEN [rows[k] EXCEPT !.publishing_name = StrValue(v)]
                           ELSE rows[k]]
    /\ UNCHANGED <<build, engine, pk_seq, proc, sync, overlap, es_fields,
                   last_bind>>

\* ESQuerySetMixin.reindex_into_es on a queryset: the documents are the rows
\* of self.values('pk', *cached fields) as they are, and when 'pk' is among
\* the cached fields a document gets no _source; one bulk request to the
\* index named get_index_name(), none when there is no document.
ReindexIntoEs ==
    /\ sync.pc = "idle"
    /\ built.calls < MaxBuilds
    /\ \E queryset \in QuerySets :
          IF \E f \in Range(es_cached_model_fields) :
                 f \notin model_fields \cup {"pk"}
            THEN /\ built' = [op |-> "reindex_into_es", error |-> "FieldError",
                             documents |-> EmptyMap,
                             pks |-> Matching(queryset),
                             calls |-> built.calls + 1]
                 /\ UNCHANGED <<indices, docs, requests>>
            ELSE LET documents ==
                         [k \in Matching(queryset) |->
                             IF "pk" \in Range(es_cached_model_fields)
                               THEN EmptyMap
                               ELSE [f \in Range(es_cached_model_fields)
                                            \cup {"pk"} |->
                                        values(k, rows[k], f)]]
                 IN  /\ built' = [op |-> "reindex_into_es", error |-> "none",
                                 documents |-> documents,
                                 pks |-> Matching(queryset),
                                 calls |-> built.calls + 1]
                     /\ IF documents = EmptyMap
                          THEN UNCHANGED <<indices, docs, requests>>
                          ELSE /\ requests' = requests + 1
                               /\ indices' = indices
                                                \cup {reindex_into_es_index}
                               /\ docs' = [docs EXCEPT
                                    ![reindex_into_es_index] =
                                        bulk(reindex_into_es_index, documents)]
    /\ UNCHANGED <<aliases, uuid, db, proc, sync, overlap, es_fields, last_bind,
                   es_cached_model_fields, es_cached_extra_fields, uuid4,
                   declared>>

\* ESQuerySetMixin.delete_from_es on a queryset: one bulk request of delete
\* actions to the index named get_index_name(), none when the queryset
\* matches no row; bulk raises BulkIndexError when an action fails, after it
\* has carried out the others.
DeleteFromEs ==
    /\ sync.pc = "idle"
    /\ built.calls < MaxBuilds
    /\ \E queryset \in QuerySets :
          LET pks == Matching(queryset)
              missing == {k \in pks : \/ reindex_into_es_index \notin indices
                                      \/ k \notin
                                           DOMAIN docs[reindex_into_es_index]}
          IN  /\ built' = [op |-> "delete_from_es",
                          error |-> IF missing = {} THEN "none"
                                                    ELSE "BulkIndexError",
                          documents |-> EmptyMap, pks |-> pks,
                          calls |-> built.calls + 1]
              /\ requests' = IF pks = {} THEN requests ELSE requests + 1
              /\ docs' = [docs EXCEPT
                            ![reindex_into_es_index] =
                                [k \in DOMAIN @ \ pks |-> @[k]]]
    /\ UNCHANGED <<indices, aliases, uuid, db, proc, sync, overlap, es_fields,
                   last_bind, es_cached_model_fields, es_cached_extra_fields,
                   uuid4, declared>>

\* What an entity type declares: the cached fields of Author, none (User),
\* or a name that is on no column of the schema.
FieldLists ==
    {<<"publishing_name", "user">>, <<>>, <<"publishing_name", "nickname">>}

\* The providers an entity type declares.
FieldClassLists == {<<>>, <<"UniqueIdentiferField">>, <<"IncompleteField">>}

\* A bootstrapped entity type with an empty table.
InitBuild ==
    /\ indices = {1}
    /\ aliases = [a \in Aliases |-> {1}]
    /\ uuid = 1
    /\ docs = [i \in IndexNames |-> EmptyMap]
    /\ rows = EmptyMap
    /\ pk_seq = 0
    /\ proc = [p \in Procs |-> IdleProc]
    /\ sync = IdleSync
    /\ overlap = FALSE
    /\ last_bind = [a \in Aliases |-> 1]
    /\ es_fields = [found |-> FALSE, source |-> None]
    /\ es_cached_model_fields \in FieldLists
    /\ declared = es_cached_model_fields
    /\ es_cached_extra_fields \in FieldClassLists
    /\ uuid4 = 0
    /\ built = NoBuilt
    /\ requests = 0

NextBuild ==
    \/ ModelSaveDb
    \/ ModelSaveIndex
    \/ BuildOne
    \/ BuildMany

\* One caller saving rows and building documents, one call after the other,
\* on a bootstrapped entity type.
SpecBuild == InitBuild /\ [][NextBuild]_vars

NextBulk ==
    \/ ModelSaveDb
    \/ ModelSaveIndex
    \/ QuerysetUpdate
    \/ ReindexIntoEs
    \/ DeleteFromEs

\* One caller saving rows and using the queryset operations update,
\* reindex_into_es and delete_from_es, one call after the other.
SpecBulk == InitBuild /\ [][NextBulk]_vars

(***************************************************************************)
(* The document builders and the queryset operations: claims.              *)
(***************************************************************************)

\* The columns of the Author table, and the primary key under both names.
Schema == {"pk", "id", "user", "publishing_name", "age"}

\* The field names of the providers the entity type declares.
ProviderFields ==
    {get_custom_field_name(c) : c \in Range(es_cached_extra_fields)}

\* The entity type declares a cached field that is on no column.
BadDeclared == \E f \in Range(declared) : f \notin Schema

\* C12: once a save has returned without an error, the document its id
\* has behind the read alias has exactly the declared cached fields and the
\* declared provider fields; user holds the referenced primary key and a
\* publishing_name that is a text holds that text.
C12_SavedDocumentFields ==
    (sync.pc = "idle" /\ sync.calls > 0 /\ sync.error = "none") =>
        LET d == retrive_es_fields(sync.pk)
        IN  /\ d.found
            /\ DOMAIN d.source = Range(declared) \cup ProviderFields
            /\ "user" \in Range(declared) =>
                  d.source["user"] = IntValue(sync.val.user.v)
            /\ ("publishing_name" \in Range(declared)
                   /\ sync.val.publishing_name.type = "str") =>
                  d.source["publishing_name"] = sync.val.publishing_name

C16_BulkDocumentCompleteness ==
    built.op = "build_documents_from_queryset" =>
        /\ (~BadDeclared
               /\ "IncompleteField" \notin Range(es_cached_extra_fields)) =>
              built.error = "none"
        /\ built.error = "none" =>
              /\ DOMAIN built.documents = built.pks
              /\ \A k \in built.pks :
                    /\ built.documents[k]._id = k
                    /\ ProviderFields \subseteq
                          DOMAIN built.documents[k]._source

\* The documents of two rows of an entity type with no cached field and one
\* provider have been built.
C16_Witness ==
    /\ built.op = "build_documents_from_queryset"
    /\ built.error = "none"
    /\ declared = <<>>
    /\ es_cached_extra_fields = <<"UniqueIdentiferField">>
    /\ Cardinality(built.pks) = 2

\* C17: a reindex_into_es over rows for one of which a declared provider
\* returns no value raises, sends no document, and never sends a document
\* without the provider's field.
C17_ProviderViolationFailsBatch ==
    (built.op = "reindex_into_es"
       /\ "IncompleteField" \in Range(es_cached_extra_fields)
       /\ SetMin(Pks) \in built.pks) =>
        /\ built.error # "none"
        /\ built.documents = EmptyMap

\* C18: queryset.update changes no document; right after a reindex_into_es
\* that returned, each row the queryset matched whose document was behind
\* the read alias has a document there with the row's current
\* publishing_name and with a new value in every provider field.
C18_ReindexAfterBulkUpdate ==
    [][/\ (rows' # rows /\ sync' = sync) => docs' = docs
       /\ (built'.calls # built.calls /\ built'.op = "reindex_into_es"
            /\ built'.error = "none") =>
              \A k \in built'.pks :
                  LET before == ThroughAlias(get_read_alias_name, k)
                      after == ThroughAlias(get_read_alias_name, k)'
                  IN  before.found =>
                        /\ after.found
                        /\ "publishing_name" \in Range(declared) =>
                              after.source["publishing_name"] =
                                  convert_model_field_to_es_format(
                                      rows'[k].publishing_name)
                        /\ \A f \in ProviderFields :
                              /\ f \in DOMAIN after.source
                              /\ after.source[f] # before.source[f]]_vars

\* C19: right after a delete_from_es, no row the queryset matched has a
\* document behind the read alias, the table is as it was, and so are the
\* documents of the other rows.
C19_DeleteFromEs ==
    [][(built'.calls # built.calls /\ built'.op = "delete_from_es") =>
          /\ \A k \in built'.pks :
                ~(ThroughAlias(get_read_alias_name, k).found)'
          /\ rows' = rows
          /\ \A k \in Pks \ built'.pks :
                ThroughAlias(get_read_alias_name, k)' =
                    ThroughAlias(get_read_alias_name, k)]_vars

(***************************************************************************)
(* rebuild_es_index: the order of its steps, and how it ends.              *)
(***************************************************************************)

\* C21: in every step of a rebuild, a bulk request is sent while the write
\* alias is on the new index and its documents go into the new index and
\* into no other; the read alias is moved to the new index by the bind that
\* follows the exhausted scan; and the old index is deleted while the read
\* alias is on the new index.
C21_RebuildStepOrder ==
    [][/\ (Rebuilder.pc = "reindex_bulk" /\ Rebuilder'.pc # "failed") =>
            /\ aliases[get_write_alias_name] = {Rebuilder.new_indicy}
            /\ DOMAIN Rebuilder.documents \subseteq
                  DOMAIN docs'[Rebuilder.new_indicy]
            /\ \A i \in IndexNames \ {Rebuilder.new_indicy} :
                  docs'[i] = docs[i]
       /\ aliases'[get_read_alias_name] # aliases[get_read_alias_name] =>
            \/ /\ Rebuilder.pc = "bind_update"
               /\ Rebuilder.ret = "rebuild_drop"
               /\ aliases'[get_read_alias_name] = {Rebuilder.new_indicy}
            \/ Rebuilder.pc = "rebuild_delete"
       /\ indices' # indices /\ Rebuilder.pc = "rebuild_delete" =>
            aliases[get_read_alias_name] = {Rebuilder.new_indicy}]_vars

(***************************************************************************)
(* The scanner beside another writer of the table: rows are deleted and    *)
(* inserted between the queries of queryset_iterator.                      *)
(***************************************************************************)

\* Another caller deletes a row of the table (super().delete()).
RowDelete ==
    /\ sync.calls < MaxSyncs
    /\ \E k \in DOMAIN rows :
          rows' = [j \in DOMAIN rows \ {k} |-> rows[j]]
    /\ sync' = [sync EXCEPT !.calls = @ + 1]
    /\ UNCHANGED <<build, engine, pk_seq, proc, overlap, es_fields, last_bind>>

\* Another caller inserts a row (super().save()): the table hands out the
\* next primary key.
RowInsert ==
    /\ sync.calls < MaxSyncs
    /\ pk_seq + 1 \in PkUniverse
    /\ pk_seq' = pk_seq + 1
    /\ rows' = [k \in DOMAIN rows \cup {pk_seq + 1} |->
                   IF k = pk_seq + 1 THEN 1 ELSE rows[k]]
    /\ sync' = [sync EXCEPT !.calls = @ + 1]
    /\ UNCHANGED <<build, engine, proc, overlap, es_fields, last_bind>>

ScanSteps == ScanLastPk(Scanner) \/ ScanFetch(Scanner)

NextScanWrites ==
    \/ ScanLastPk(Scanner)
    \/ ScanFetch(Scanner)
    \/ RowDelete
    \/ RowInsert

\* The generator is consumed in a loop that nothing suspends, while another
\* caller writes to the table when it pleases.
SpecScanWrites == InitScan /\ [][NextScanWrites]_vars /\ WF_vars(ScanSteps)

\* The keys of the batches the scan has yielded before its last one.
EarlierKeys(rec) ==
    UNION {Range(rec.batches[b]) : b \in 1..(Len(rec.batches) - 1)}

\* C22: with rows deleted between its queries the scan ends by exhausting
\* the generator: it raises nothing, and every fetch advances the low-water
\* mark to the last key of the batch it fetched, which is above the mark.
C22_ScanEndsUnderDeletes ==
    /\ [](proc[Scanner].pc # "failed")
    /\ [][(proc[Scanner].pc = "scan_fetch" /\ proc' # proc) =>
            /\ proc'[Scanner].batches # proc[Scanner].batches
            /\ proc'[Scanner].pk =
                  Concat(proc'[Scanner].batches)
                      [Len(Concat(proc'[Scanner].batches))]
            /\ proc'[Scanner].pk > proc[Scanner].pk]_vars
    /\ <>(proc[Scanner].pc = "done")

\* C23 as stated: no batch of the scan holds a key above the maximum the
\* scan captured when it started.
C23_SnapshotBoundary ==
    proc[Scanner].last_pk # None =>
        \A k \in Range(Concat(proc[Scanner].batches)) :
            k <= proc[Scanner].last_pk

\* C23, amended: a key above the captured maximum is in no batch but the
\* last one. Every batch before the last holds only keys below the captured
\* maximum; the last batch was fetched from a low-water mark below the
\* maximum and is bounded by the chunk size alone, so it takes the rows
\* inserted above the maximum that fit in the chunk.
C23_SnapshotBoundaryLastBatch ==
    proc[Scanner].last_pk # None =>
        /\ \A k \in EarlierKeys(proc[Scanner]) : k < proc[Scanner].last_pk
        /\ \A b \in 1..Len(proc[Scanner].batches) :
              Len(proc[Scanner].batches[b]) <= proc[Scanner].chunk_size

\* A scan has returned whose last batch, not its first, holds a row inserted
\* above the captured maximum.
C23_Witness ==
    /\ proc[Scanner].pc = "done"
    /\ Len(proc[Scanner].batches) >= 2
    /\ \E k \in Range(Concat(proc[Scanner].batches)) :
          k > proc[Scanner].last_pk

\* C24: when the delete of the old index at the end of a rebuild of the
\* whole table has failed, both aliases resolve to the new index, the new
\* index holds a document for every row, and the old index is still there
\* with no alias on it.
C24_DeleteFailureNonFatal ==
    (WholeTable(Rebuilder) /\ Rebuilder.pc = "failed"
       /\ Rebuilder.at = "rebuild_delete") =>
        /\ aliases[get_read_alias_name] = {Rebuilder.new_indicy}
        /\ aliases[get_write_alias_name] = {Rebuilder.new_indicy}
        /\ Rebuilder.new_indicy \in indices
        /\ DOMAIN rows \subseteq DOMAIN docs[Rebuilder.new_indicy]
        /\ Rebuilder.old_indicy \in indices
        /\ \A a \in Aliases : Rebuilder.old_indicy \notin aliases[a]

(***************************************************************************)
(* The document builders: further claims.                                  *)
(***************************************************************************)

\* C25: a save whose document could not be built, because a declared field
\* is on no column or because a provider returned no value for the row,
\* raises an error that is not UnableToSaveModelToElasticSearch, the error
\* of a failed index request; for the field it is
\* NominatedFieldDoesNotExistForESIndexingException.
C25_ErrorsKeepStage ==
    (sync.pc = "idle" /\ sync.calls > 0) =>
        /\ sync.cause = "NominatedFieldDoesNotExistForESIndexingException" =>
              sync.error = "NominatedFieldDoesNotExistForESIndexingException"
        /\ sync.cause = "KeyError" =>
              sync.error \notin {"none", "UnableToSaveModelToElasticSearch"}

\* C26: the documents a build_documents_from_queryset call returns have, for
\* each row, the field names of the document build_document_from_model
\* returns for that row when called just before, and the same value in
\* every field that no provider computes.
C26_BuildersAgree ==
    [][(built'.calls # built.calls
          /\ built'.op = "build_documents_from_queryset"
          /\ built'.error = "none") =>
            \A k \in built'.pks :
                LET one == build_document_from_model(k, rows[k])
                    many == built'.documents[k]._source
                IN  one.error = "none" =>
                      /\ DOMAIN many = DOMAIN one.document
                      /\ \A f \in DOMAIN one.document \ ProviderFields :
                            many[f] = one.document[f]]_vars

\* C28: the declared cached-field list of the entity type is at every
\* moment the list its class body declared.
C28_DeclaredListUnchanged == es_cached_model_fields = declared

(***************************************************************************)
(* The aliases after rebuilds and initialize calls.                        *)
(***************************************************************************)

\* No call is in flight, none has raised, and a rebuild has returned.
RebuildsFinished ==
    /\ \A p \in Procs : proc[p].pc \in {"idle", "done"}
    /\ \E p \in Procs : proc[p].pc = "done" /\ proc[p].op = "rebuild"

\* C27: whenever every rebuild that was started has returned, whether the
\* rebuilds overlapped or not, the read alias and the write alias resolve
\* to one and the same index, which exists.
C27_AliasConvergence ==
    RebuildsFinished =>
        \E i \in indices :
            /\ aliases[get_read_alias_name] = {i}
            /\ aliases[get_write_alias_name] = {i}

\* The engine is unreachable, or answers with an error that is not
\* NotFoundError: the request has no effect and the exception leaves
\* initialize_es_model_index.
InitializeFail(p) ==
    /\ proc[p].op = "initialize"
    /\ proc[p].pc \in {"init_lookup", "init_generate", "bind_exists",
                       "bind_get", "bind_update"}
    /\ proc' = [proc EXCEPT ![p] = Raise(p, "TransportError")]
    /\ UNCHANGED <<build, engine, db, sync, overlap, es_fields, last_bind>>

NextInitFail ==
    \/ NextInit
    \/ \E p \in Procs : InitializeFail(p)

\* Callers of initialize_es_model_index on a fresh engine whose requests may
\* fail, one call each.
SpecInitFail == InitFresh /\ [][NextInitFail]_vars

\* C29: when an initialize call that overlapped no other has returned, both
\* aliases resolve to one and the same index, which exists, also when the
\* call before it raised between its two binds.
C29_InitializeAfterFailure ==
    (~overlap /\ \E p \in Procs : proc[p].pc = "done") =>
        \E i \in indices :
            /\ aliases[get_read_alias_name] = {i}
            /\ aliases[get_write_alias_name] = {i}

\* rebuild_es_index(drop_old_index=True), the default.
RebuildStartDrop(p) ==
    /\ RebuildStart(p)
    /\ proc'[p].drop_old_index

\* A bulk request of the rebuild fails: the exception of reindex_into_es
\* leaves rebuild_es_index while it populates.
RebuildFailPopulating(p) ==
    /\ proc[p].pc = "reindex_bulk"
    /\ RebuildFail(p)

NextDrop ==
    \/ RebuildStartDrop(Operator)
    \/ RebuildOld(Operator)
    \/ RebuildGenerate(Operator)
    \/ BindSteps(Operator)
    \/ ScanOr(Operator)
    \/ ScanLastPk(Operator)
    \/ ScanFetch(Operator)
    \/ ReindexValues(Operator)
    \/ ReindexBulk(Operator)
    \/ RebuildDelete(Operator)
    \/ RebuildFailPopulating(Operator)

\* After initialize: rebuilds that drop the old index, called one after the
\* other, each called again when it failed while populating.
SpecDrop == InitBootstrapped /\ [][NextDrop]_vars

\* C30: once a rebuild with drop_old_index has returned, after rebuilds
\* with drop_old_index only, the one generated index that exists is its new
\* index, and both aliases resolve to it.
C30_NoLeakedIndices ==
    (Rebuilder.op = "rebuild" /\ Rebuilder.pc = "done") =>
        /\ indices \cap UuidNames = {Rebuilder.new_indicy}
        /\ aliases[get_read_alias_name] = {Rebuilder.new_indicy}
        /\ aliases[get_write_alias_name] = {Rebuilder.new_indicy}

(***************************************************************************)
(* Callers of save that run side by side, each on its own instance.        *)
(***************************************************************************)

\* save of caller p, super().save(): the relational write of the values the
\* caller's instance holds, into a new row or into a row that exists. The
\* caller keeps the instance: its pk and the values the document is built
\* from.
SaveDbBy(p) ==
    /\ proc[p].pc = "idle"
    /\ \E v \in Vals :
          \/ /\ pk_seq < MaxPk
             /\ pk_seq' = pk_seq + 1
             /\ rows' = [k \in DOMAIN rows \cup {pk_seq + 1} |->
                            IF k = pk_seq + 1 THEN v ELSE rows[k]]
             /\ proc' = [proc EXCEPT ![p] =
                            [IdleProc EXCEPT
                                !.pc = "save_index", !.op = "save",
                                !.pk = pk_seq + 1,
                                !.documents = [k \in {pk_seq + 1} |-> v]]]
          \/ \E j \in DOMAIN rows :
                /\ rows' = [rows EXCEPT ![j] = v]
                /\ pk_seq' = pk_seq
                /\ proc' = [proc EXCEPT ![p] =
                               [IdleProc EXCEPT
                                   !.pc = "save_index", !.op = "save",
                                   !.pk = j,
                                   !.documents = [k \in {j} |-> v]]]
    /\ overlap' = StartOverlap(p)
    /\ UNCHANGED <<build, engine, sync, es_fields, last_bind>>

\* save of caller p, the index request: the document of the caller's
\* instance goes under its pk into the index behind the write alias.
SaveIndexBy(p) ==
    /\ proc[p].pc = "save_index"
    /\ IF write_targets = {}
         THEN /\ proc' = [proc EXCEPT ![p] =
                             [proc[p] EXCEPT
                                 !.pc = "failed",
                                 !.error = "UnableToSaveModelToElasticSearch"]]
              /\ docs' = docs
         ELSE /\ docs' = [i \in IndexNames |->
                            IF i \in write_targets
                              THEN bulk(i, proc[p].documents)
                              ELSE docs[i]]
              /\ proc' = [proc EXCEPT ![p].pc = "done"]
    /\ UNCHANGED <<build, indices, aliases, uuid, db, sync, overlap,
                   es_fields, last_bind>>

\* The index request of caller p fails: save raises and no document changes.
SaveFailBy(p) ==
    /\ proc[p].pc = "save_index"
    /\ proc' = [proc EXCEPT ![p] =
                   [proc[p] EXCEPT
                       !.pc = "failed",
                       !.error = "UnableToSaveModelToElasticSearch"]]
    /\ UNCHANGED <<build, engine, db, sync, overlap, es_fields, last_bind>>

NextSaves ==
    \E p \in Procs :
        \/ SaveDbBy(p)
        \/ SaveIndexBy(p)
        \/ SaveFailBy(p)

\* Two callers of save, one call each, on a bootstrapped entity type or on
\* one a rebuild left with its aliases on two indices.
SpecSaves == InitSync /\ [][NextSaves]_vars

\* Both callers have saved the same entity, their calls overlapped, and both
\* calls have returned without an error.
BothSaved ==
    /\ \A p \in Procs : proc[p].op = "save" /\ proc[p].pc = "done"
    /\ \A p, q \in Procs : proc[p].pk = proc[q].pk
    /\ overlap

\* C31: when two saves of one entity that overlapped have both returned
\* without an error, the document of the entity in the index behind the
\* write alias holds the values the row holds.
C31_ConcurrentSavesAgree ==
    BothSaved =>
        \E w \in IndexNames :
            /\ aliases[get_write_alias_name] = {w}
            /\ proc[Operator].pk \in DOMAIN docs[w]
            /\ docs[w][proc[Operator].pk] = rows[proc[Operator].pk]

=============================================================================
